---- MODULE Spec2Model ----
(***************************************************************************)
(* Rule-based fraud detection: the rule engine (rule_engine.py) and the    *)
(* detection / statistics layer (detection_system.py).                     *)
(*                                                                         *)
(* Representation                                                          *)
(*   - a DataFrame is [columns, rows]; rows is a sequence whose position   *)
(*     i+1 holds the row with index label i (pandas RangeIndex, which is   *)
(*     what read_csv produces);                                            *)
(*   - a timestamp is the broken-down 'YYYY-MM-DD HH:MM:SS' value          *)
(*     [day, hour, minute, second]; to_datetime turns it into seconds;     *)
(*   - amounts are held in cents, thresholds in dollars (as configured);   *)
(*   - latitude / longitude are held in 1e-4 degrees, distances in 1e-3    *)
(*     miles;                                                              *)
(*   - a violation keeps 'rule' and 'severity'; the free-text message and  *)
(*     the details dictionary are left out;                                *)
(*   - Python's None is the value None; a raised exception is the value    *)
(*     Exception(type);                                                    *)
(*   - a NaN cell of a DataFrame (an empty cell of the CSV file) is a      *)
(*     field the row does not have; an is_fraud cell holds the text of     *)
(*     the label, "NaN" when empty;                                        *)
(*   - a timestamp that pd.to_datetime cannot parse is [text |-> ...].     *)
(***************************************************************************)
EXTENDS Integers, Sequences, FiniteSets, TLC

\* ------------------------------------------------------------------ bounds
MaxTxns == 3
MaxCalls == 2
MaxBurst == 6

\* ----------------------------------------------------------------- helpers
None == [none |-> TRUE]

\* raise <type>(...)
Exception(type) == [exception |-> type]

IsException(r) == "exception" \in DOMAIN r

\* pd.isna(row[column])
isna(row, column) == column \notin DOMAIN row

Users == {"USER001", "USER002"}

\* Series.sum(): NaN cells are skipped
RECURSIVE SumAmount(_)
SumAmount(rows) ==
    IF rows = <<>> THEN 0
    ELSE (IF isna(Head(rows), "amount") THEN 0 ELSE Head(rows).amount)
             + SumAmount(Tail(rows))

Dollars(x) == x * 100

\* pd.to_datetime: seconds since the epoch of the data set
to_datetime(ts) == ((ts.day * 24 + ts.hour) * 60 + ts.minute) * 60 + ts.second

\* pd.to_datetime raises on a string that is not a date
to_datetime_raises(ts) == "text" \in DOMAIN ts

\* pd.to_datetime(df['timestamp']) raises when one cell of the column does
column_to_datetime_raises(df) ==
    \E i \in 1..Len(df.rows) : to_datetime_raises(df.rows[i].timestamp)

timedelta_minutes(m) == m * 60

timedelta_days(d) == d * 86400

\* df.iloc[transaction_idx]
iloc(df, transaction_idx) == df.rows[transaction_idx + 1]

\* ------------------------------------------------------------- geography
NewYork == <<407128, -740060>>
Newark == <<407357, -741724>>
Boston == <<423601, -710589>>

\* haversine distance with R = 3959 miles, in thousandths of a mile,
\* tabulated for the coordinates that occur in the inputs
calculate_distance(lat1, lon1, lat2, lon2) ==
    LET pair == {<<lat1, lon1>>, <<lat2, lon2>>} IN
    IF Cardinality(pair) = 1 THEN 0
    ELSE IF pair = {NewYork, Newark} THEN 8856
    ELSE IF pair = {NewYork, Boston} THEN 190219
    ELSE 196248

\* ---------------------------------------------------------- configuration
DefaultConfig ==
    [frequency |-> [enabled |-> TRUE, max_transactions |-> 5,
                    time_window_minutes |-> 60],
     amount    |-> [enabled |-> TRUE, single_transaction_limit |-> 1000,
                    daily_cumulative_limit |-> 3000],
     travel    |-> [enabled |-> TRUE, max_speed_mph |-> 600],
     time      |-> [enabled |-> TRUE, unusual_hours_start |-> 2,
                    unusual_hours_end |-> 5]]

\* FraudRuleEngine.__init__
FraudRuleEngine(config) ==
    [config |-> IF config = None THEN DefaultConfig ELSE config,
     violations |-> <<>>]

\* ------------------------------------------------------------------ rules
\* mutant: the start of the window is excluded
window_txns_open_start(df, user_id, window_start, current_time) ==
    SelectSeq(df.rows,
              LAMBDA r : /\ r.user_id = user_id
                         /\ to_datetime(r.timestamp) > window_start
                         /\ to_datetime(r.timestamp) <= current_time)

\* df[(user_id == ...) & (timestamp >= window_start) & (timestamp <= current_time)]
window_txns(df, user_id, window_start, current_time) ==
    SelectSeq(df.rows,
              LAMBDA r : /\ r.user_id = user_id
                         /\ to_datetime(r.timestamp) >= window_start
                         /\ to_datetime(r.timestamp) <= current_time)

check_frequency_rule(self, df, transaction_idx) ==
    IF "enabled" \notin DOMAIN self.config.frequency THEN Exception("KeyError")
    ELSE IF ~self.config.frequency.enabled THEN None
    ELSE IF column_to_datetime_raises(df) THEN Exception("ValueError")
    ELSE
    LET current_txn == iloc(df, transaction_idx)
        user_id == current_txn.user_id
        current_time == to_datetime(current_txn.timestamp)
        time_window == timedelta_minutes(self.config.frequency.time_window_minutes)
        window_start == current_time - time_window
        user_txns == window_txns(df, user_id, window_start, current_time)
        max_allowed == self.config.frequency.max_transactions
    IN  IF Len(user_txns) > max_allowed
        THEN [rule |-> "HIGH_FREQUENCY", severity |-> "HIGH"]
        ELSE None

\* mutant: an amount equal to the limit is flagged too
over_single_limit_inclusive(amount, single_limit) == amount >= Dollars(single_limit)

\* amount > single_limit
over_single_limit(amount, single_limit) == amount > Dollars(single_limit)

\* mutant: the end of the day is included
day_txns_closed_end(df, user_id, day_start, day_end) ==
    SelectSeq(df.rows,
              LAMBDA r : /\ r.user_id = user_id
                         /\ to_datetime(r.timestamp) >= day_start
                         /\ to_datetime(r.timestamp) <= day_end)

\* df[(user_id == ...) & (timestamp >= day_start) & (timestamp < day_end)]
day_txns(df, user_id, day_start, day_end) ==
    SelectSeq(df.rows,
              LAMBDA r : /\ r.user_id = user_id
                         /\ to_datetime(r.timestamp) >= day_start
                         /\ to_datetime(r.timestamp) < day_end)

\* mutant: the last violation found is returned
first_violation_last(violations) ==
    IF violations # <<>> THEN violations[Len(violations)] ELSE None

\* violations[0] if violations else None
first_violation(violations) ==
    IF violations # <<>> THEN violations[1] ELSE None

check_amount_rule(self, df, transaction_idx) ==
    IF "enabled" \notin DOMAIN self.config.amount THEN Exception("KeyError")
    ELSE IF ~self.config.amount.enabled THEN None
    ELSE IF column_to_datetime_raises(df) THEN Exception("ValueError")
    ELSE
    LET current_txn == iloc(df, transaction_idx)
        user_id == current_txn.user_id
        amount == current_txn.amount
        current_time == current_txn.timestamp
        single_limit == self.config.amount.single_transaction_limit
        \* a NaN amount compares False
        single == IF ~isna(current_txn, "amount")
                         /\ over_single_limit(amount, single_limit)
                  THEN <<[rule |-> "HIGH_AMOUNT_SINGLE", severity |-> "HIGH"]>>
                  ELSE <<>>
        day_start == to_datetime([current_time EXCEPT !.hour = 0, !.minute = 0,
                                                      !.second = 0])
        day_end == day_start + timedelta_days(1)
        daily_txns == day_txns(df, user_id, day_start, day_end)
        daily_total == SumAmount(daily_txns)
        daily_limit == self.config.amount.daily_cumulative_limit
        cumulative == IF daily_total > Dollars(daily_limit)
                      THEN <<[rule |-> "HIGH_AMOUNT_CUMULATIVE",
                              severity |-> "MEDIUM"]>>
                      ELSE <<>>
    IN  first_violation(single \o cumulative)

\* mutant: the 50-mile guard is missing
impossible_speed_no_guard(distance_miles, time_diff_seconds, max_speed) ==
    distance_miles * 36 > max_speed * 10 * time_diff_seconds

\* required_speed > max_speed and distance_miles > 50, where
\* required_speed = distance_miles / time_diff_hours; with the distance in
\* 1e-3 miles and the time in seconds the first comparison is
\* (distance / 1000) / (seconds / 3600) > max_speed, cross-multiplied and
\* reduced by 100
impossible_speed(distance_miles, time_diff_seconds, max_speed) ==
    /\ distance_miles * 36 > max_speed * 10 * time_diff_seconds
    /\ distance_miles > 50 * 1000

\* mutant: the previous transaction of any user is taken
previous_txns_any_user(df, user_id, transaction_idx) ==
    SubSeq(df.rows, 1, transaction_idx)

\* df[(user_id == ...) & (df.index < transaction_idx)]: the rows whose index
\* label is below transaction_idx
previous_user_txns(df, user_id, transaction_idx) ==
    SelectSeq(SubSeq(df.rows, 1, transaction_idx),
              LAMBDA r : r.user_id = user_id)

check_travel_rule(self, df, transaction_idx) ==
    IF "enabled" \notin DOMAIN self.config.travel THEN Exception("KeyError")
    ELSE IF ~self.config.travel.enabled THEN None
    ELSE IF transaction_idx = 0 THEN None
    ELSE
    LET current_txn == iloc(df, transaction_idx)
        user_id == current_txn.user_id
        previous == previous_user_txns(df, user_id, transaction_idx)
    IN  IF Len(previous) = 0 THEN None
        ELSE IF \/ to_datetime_raises(previous[Len(previous)].timestamp)
                \/ to_datetime_raises(current_txn.timestamp)
             THEN Exception("ValueError")
        ELSE
        LET previous_txn == previous[Len(previous)]
            distance_miles == calculate_distance(
                                  previous_txn.latitude, previous_txn.longitude,
                                  current_txn.latitude, current_txn.longitude)
            time1 == to_datetime(previous_txn.timestamp)
            time2 == to_datetime(current_txn.timestamp)
            \* time_diff_hours = seconds / 3600, raised to 0.01 h = 36 s
            seconds == time2 - time1
            time_diff_seconds == IF seconds < 36 THEN 36 ELSE seconds
            max_speed == self.config.travel.max_speed_mph
        IN  IF impossible_speed(distance_miles, time_diff_seconds, max_speed)
            THEN [rule |-> "IMPOSSIBLE_TRAVEL", severity |-> "CRITICAL"]
            ELSE None

\* mutant: the last unusual hour is excluded
unusual_hour_open_end(hour, unusual_start, unusual_end) ==
    unusual_start <= hour /\ hour < unusual_end

\* mutant: a range whose start is after its end runs through midnight
unusual_hour_wrapped(hour, unusual_start, unusual_end) ==
    IF unusual_start <= unusual_end
    THEN unusual_start <= hour /\ hour <= unusual_end
    ELSE unusual_start <= hour \/ hour <= unusual_end

\* unusual_start <= hour <= unusual_end
unusual_hour(hour, unusual_start, unusual_end) ==
    unusual_start <= hour /\ hour <= unusual_end

\* mutant: an unusual time is of LOW severity
check_time_rule_low(self, df, transaction_idx) ==
    IF self.config.time.enabled
       /\ unusual_hour(iloc(df, transaction_idx).timestamp.hour,
                       self.config.time.unusual_hours_start,
                       self.config.time.unusual_hours_end)
    THEN [rule |-> "UNUSUAL_TIME", severity |-> "LOW"]
    ELSE None

\* mutant: the rule is evaluated whatever its enabled flag says
check_time_rule_always(self, df, transaction_idx) ==
    IF unusual_hour(iloc(df, transaction_idx).timestamp.hour,
                    self.config.time.unusual_hours_start,
                    self.config.time.unusual_hours_end)
    THEN [rule |-> "UNUSUAL_TIME", severity |-> "MEDIUM"]
    ELSE None

check_time_rule(self, df, transaction_idx) ==
    IF "enabled" \notin DOMAIN self.config.time THEN Exception("KeyError")
    ELSE IF ~self.config.time.enabled THEN None
    ELSE IF to_datetime_raises(iloc(df, transaction_idx).timestamp)
         THEN Exception("ValueError")
    ELSE
    LET current_txn == iloc(df, transaction_idx)
        hour == current_txn.timestamp.hour
        unusual_start == self.config.time.unusual_hours_start
        unusual_end == self.config.time.unusual_hours_end
    IN  IF unusual_hour(hour, unusual_start, unusual_end)
        THEN [rule |-> "UNUSUAL_TIME", severity |-> "MEDIUM"]
        ELSE None

\* mutant: a violation is recorded twice
Appended_twice(violations, violation) ==
    IF violation # None THEN Append(Append(violations, violation), violation)
    ELSE violations

\* 'if violation: violations.append(violation)'
Appended(violations, violation) ==
    IF violation # None THEN Append(violations, violation) ELSE violations

\* mutant: a transaction already in the engine's violation log is skipped
analyze_transaction_once(self, df, transaction_idx) ==
    IF \E k \in 1..Len(self.violations) :
           self.violations[k].transaction_idx = transaction_idx
    THEN <<>>
    ELSE
    Appended(Appended(Appended(Appended(<<>>,
        check_frequency_rule(self, df, transaction_idx)),
        check_amount_rule(self, df, transaction_idx)),
        check_travel_rule(self, df, transaction_idx)),
        check_time_rule(self, df, transaction_idx))

\* mutant: the time rule is evaluated first
analyze_transaction_time_first(self, df, transaction_idx) ==
    Appended(Appended(Appended(Appended(<<>>,
        check_time_rule(self, df, transaction_idx)),
        check_frequency_rule(self, df, transaction_idx)),
        check_amount_rule(self, df, transaction_idx)),
        check_travel_rule(self, df, transaction_idx))

analyze_transaction(self, df, transaction_idx) ==
    Appended(Appended(Appended(Appended(<<>>,
        check_frequency_rule(self, df, transaction_idx)),
        check_amount_rule(self, df, transaction_idx)),
        check_travel_rule(self, df, transaction_idx)),
        check_time_rule(self, df, transaction_idx))

\* the exception that leaves analyze_transaction: that of the first rule, in
\* the order of rules_to_check, that raises; None when no rule raises
analyze_transaction_raises(self, df, transaction_idx) ==
    LET outcomes == <<check_frequency_rule(self, df, transaction_idx),
                      check_amount_rule(self, df, transaction_idx),
                      check_travel_rule(self, df, transaction_idx),
                      check_time_rule(self, df, transaction_idx)>>
        raising == SelectSeq(outcomes, IsException)
    IN  IF raising = <<>> THEN None ELSE raising[1]

\* ------------------------------------------------------- analyze_dataset
ResultColumns == {"suspicious", "risk_score", "violations"}

\* df['suspicious'] = False; df['risk_score'] = 0; df['violations'] = [[] ...]
add_result_columns(df) ==
    [columns |-> df.columns \cup ResultColumns,
     rows |-> [i \in 1..Len(df.rows) |->
                 [suspicious |-> FALSE, risk_score |-> 0, violations |-> <<>>]
                     @@ df.rows[i]]]

\* mutant: risk_score weighted by severity instead of counting violations
set_at_weighted(df, idx, violations) ==
    [df EXCEPT !.rows[idx + 1] =
        [@ EXCEPT !.suspicious = TRUE,
                  !.risk_score = Len(violations)
                      + Len(SelectSeq(violations,
                                      LAMBDA v : v.severity \in {"HIGH", "CRITICAL"})),
                  !.violations = violations]]

\* the three df.at[idx, ...] assignments of a flagged transaction
set_at(df, idx, violations) ==
    [df EXCEPT !.rows[idx + 1] =
        [@ EXCEPT !.suspicious = TRUE,
                  !.risk_score = Len(violations),
                  !.violations = violations]]

\* self.violations.append({...})
log_entry(df, idx, violations) ==
    [transaction_idx |-> idx,
     transaction_id |-> iloc(df, idx).transaction_id,
     user_id |-> iloc(df, idx).user_id,
     timestamp |-> iloc(df, idx).timestamp,
     amount |-> IF isna(iloc(df, idx), "amount") THEN "nan"
                ELSE iloc(df, idx).amount,
     violations |-> violations]

\* for idx in range(len(df)): ...; an exception of a rule ends the loop and
\* leaves analyze_dataset
RECURSIVE analyze_loop(_, _, _)
analyze_loop(self, df, idx) ==
    IF idx >= Len(df.rows)
    THEN [self |-> self, df |-> df, exception |-> None]
    ELSE IF analyze_transaction_raises(self, df, idx) # None
    THEN [self |-> self, df |-> df,
          exception |-> analyze_transaction_raises(self, df, idx)]
    ELSE LET violations == analyze_transaction(self, df, idx) IN
         IF violations # <<>>
         THEN LET flagged == set_at(df, idx, violations) IN
              analyze_loop(
                  [self EXCEPT !.violations =
                      Append(@, log_entry(flagged, idx, violations))],
                  flagged, idx + 1)
         ELSE analyze_loop(self, df, idx + 1)

\* mutant: the engine's violation log is emptied at the start of a call
analyze_dataset_reset_log(self, df) ==
    analyze_loop([self EXCEPT !.violations = <<>>], add_result_columns(df), 0)

\* mutant: only the flagged transactions are returned
analyze_dataset_flagged_only(self, df) ==
    LET r == analyze_loop(self, add_result_columns(df), 0) IN
    [r EXCEPT !.df.rows = SelectSeq(@, LAMBDA row : row.suspicious)]

\* returns the engine after the call, the (same, mutated) DataFrame and the
\* exception raised instead of returning it, if any
analyze_dataset(self, df) == analyze_loop(self, add_result_columns(df), 0)

\* -------------------------------------------------- calculate_statistics
\* mutant: only the first violation of a transaction is counted
AllViolations_first_only(rows) ==
    {<<i, 1>> : i \in {j \in 1..Len(rows) : Len(rows[j].violations) > 0}}

\* 'for _, row in ...iterrows(): for violation in row['violations']': the
\* violation instances, as (row, place in the row's list)
AllViolations(rows) ==
    UNION {{<<i, k>> : k \in 1..Len(rows[i].violations)} : i \in 1..Len(rows)}

\* mutant: only the transactions with more than one violation are counted
sum_high_risk(rows) == Len(SelectSeq(rows, LAMBDA r : r.risk_score > 1))

\* df_analyzed['suspicious'].sum()
sum_suspicious(rows) == Len(SelectSeq(rows, LAMBDA r : r.suspicious))

\* mutant: a ratio over nothing is 1
ratio_or_one(num, den) ==
    IF den > 0 THEN [num |-> num, den |-> den] ELSE [num |-> 1, den |-> 1]

\* 'num / den if den > 0 else 0', kept as a fraction
ratio_or_zero(num, den) ==
    IF den > 0 THEN [num |-> num, den |-> den] ELSE [num |-> 0, den |-> 1]

\* round(x, 4) in units of 1e-4; none of the fractions that arise from up to
\* MaxTxns + 1 transactions lies halfway between two such units
round4(x) == (2 * 10000 * x.num + x.den) \div (2 * x.den)

\* mutant: every transaction is taken
all_rows(rows) == rows

\* df_analyzed[df_analyzed['suspicious'] == True]
suspicious_rows(rows) == SelectSeq(rows, LAMBDA r : r.suspicious = TRUE)

\* risk_scores.value_counts().to_dict()
value_counts(rows) ==
    [s \in {rows[i].risk_score : i \in 1..Len(rows)} |->
        Cardinality({i \in 1..Len(rows) : rows[i].risk_score = s})]

calculate_statistics(df_analyzed) ==
    LET rows == df_analyzed.rows
        total_transactions == Len(rows)
        Suspicious(r) == r.suspicious = TRUE
        NotSuspicious(r) == r.suspicious = FALSE
        flagged_transactions == sum_suspicious(rows)
        has_ground_truth == "is_fraud" \in df_analyzed.columns
        flagged_rows == suspicious_rows(rows)
        risk_score_distribution == value_counts(flagged_rows)
        rule_names == {flagged_rows[p[1]].violations[p[2]].rule :
                          p \in AllViolations(flagged_rows)}
        rule_counts ==
            [n \in rule_names |->
                Cardinality({p \in AllViolations(flagged_rows) :
                                flagged_rows[p[1]].violations[p[2]].rule = n})]
        stats == [total_transactions |-> total_transactions,
                  flagged_count |-> flagged_transactions,
                  clean_count |-> total_transactions - flagged_transactions,
                  has_distribution |-> flagged_transactions > 0,
                  risk_score_distribution |->
                      IF flagged_transactions > 0 THEN risk_score_distribution
                      ELSE <<>>,
                  violations_by_rule |-> rule_counts,
                  has_ground_truth |-> has_ground_truth]
        IsFraud(r) == r.is_fraud = "True"
        NotFraud(r) == r.is_fraud = "False"
        TP(r) == Suspicious(r) /\ IsFraud(r)
        FP(r) == Suspicious(r) /\ NotFraud(r)
        FN(r) == NotSuspicious(r) /\ IsFraud(r)
        TN(r) == NotSuspicious(r) /\ NotFraud(r)
        true_positives == Len(SelectSeq(rows, TP))
        false_positives == Len(SelectSeq(rows, FP))
        false_negatives == Len(SelectSeq(rows, FN))
        true_negatives == Len(SelectSeq(rows, TN))
        precision == ratio_or_zero(true_positives,
                                   true_positives + false_positives)
        recall == ratio_or_zero(true_positives,
                                true_positives + false_negatives)
        \* 2 * (precision * recall) / (precision + recall) if their sum > 0,
        \* numerator and denominator multiplied by precision.den * recall.den
        f1_score == ratio_or_zero(2 * precision.num * recall.num,
                                  precision.num * recall.den
                                      + recall.num * precision.den)
        accuracy == [num |-> true_positives + true_negatives,
                     den |-> total_transactions]
    IN  IF ~has_ground_truth THEN stats
        \* accuracy divides two Python ints by total_transactions
        ELSE IF total_transactions = 0 THEN [error |-> "ZeroDivisionError"]
        ELSE stats @@
             [ground_truth |->
                 [actual_fraud_count |-> Len(SelectSeq(rows, IsFraud)),
                  true_positives |-> true_positives,
                  false_positives |-> false_positives,
                  false_negatives |-> false_negatives,
                  true_negatives |-> true_negatives,
                  precision |-> round4(precision),
                  recall |-> round4(recall),
                  f1_score |-> round4(f1_score),
                  accuracy |-> round4(accuracy)]]

\* ------------------------------------------------------------ input files
At(d, h, m, s) == [day |-> d, hour |-> h, minute |-> m, second |-> s]

Place(label, coords) ==
    [location |-> label, latitude |-> coords[1], longitude |-> coords[2]]

NY == Place("New York, NY", NewYork)
NWK == Place("Newark, NJ", Newark)
BOS == Place("Boston, MA", Boston)

BaseColumns == {"transaction_id", "user_id", "timestamp", "amount",
                "location", "latitude", "longitude"}

\* lines a CSV file may hold, without the transaction id
Unlabelled(users, times, amounts, places) ==
    {[user_id |-> u, timestamp |-> t, amount |-> a] @@ p :
        u \in users, t \in times, a \in amounts, p \in places}

Labelled(labels, lines) ==
    {[is_fraud |-> l] @@ x : l \in labels, x \in lines}

\* a line whose amount cell is empty
BlankAmount(line) == [k \in DOMAIN line \ {"amount"} |-> line[k]]

\* a line whose timestamp cell is not a date
BadTimestamp(line) == [line EXCEPT !.timestamp = [text |-> "not a date"]]

\* a family of CSV files: the header, and the lines a file may hold
CsvFiles(header, lines) == [header |-> header, lines |-> lines]

\* a file of the family: at most MaxTxns lines; transaction ids are unique
\* within a file
CsvFile(header, body) ==
    [header |-> header,
     lines |-> [i \in 1..Len(body) |-> [transaction_id |-> 10 * i] @@ body[i]]]

\* pd.read_csv: default RangeIndex, an empty is_fraud cell is read as NaN
read_csv(file) ==
    [columns |-> file.header,
     rows |-> [i \in 1..Len(file.lines) |->
                 IF "is_fraud" \in file.header
                 THEN [file.lines[i] EXCEPT
                          !.is_fraud = IF @ = "" THEN "NaN" ELSE @]
                 ELSE file.lines[i]]]

Rules(f, a, tr, ti) == [frequency |-> f, amount |-> a, travel |-> tr, time |-> ti]

Frequency(enabled, max_transactions, time_window_minutes) ==
    [enabled |-> enabled, max_transactions |-> max_transactions,
     time_window_minutes |-> time_window_minutes]

Amount(enabled, single_transaction_limit, daily_cumulative_limit) ==
    [enabled |-> enabled, single_transaction_limit |-> single_transaction_limit,
     daily_cumulative_limit |-> daily_cumulative_limit]

Travel(enabled, max_speed_mph) ==
    [enabled |-> enabled, max_speed_mph |-> max_speed_mph]

Time(enabled, unusual_hours_start, unusual_hours_end) ==
    [enabled |-> enabled, unusual_hours_start |-> unusual_hours_start,
     unusual_hours_end |-> unusual_hours_end]

ConfigFile(name, rules) == [name |-> name, rules |-> rules]

\* a rule of a JSON file in which the "enabled" key is not written
WithoutEnabled(rule) == [k \in DOMAIN rule \ {"enabled"} |-> rule[k]]

\* general inputs: labelled and unlabelled files, small and large amounts
GeneralInput ==
    LET times == {At(0, 3, 0, 0)}
        small == Unlabelled(Users, times, {Dollars(50)}, {NY})
        large == Unlabelled(Users, times, {Dollars(1500)}, {NY})
    IN  {CsvFiles(BaseColumns, small \cup large),
         CsvFiles(BaseColumns \cup {"is_fraud"},
                  Labelled({"True", "False", ""}, small)
                      \cup Labelled({"True", "False"}, large))}

GeneralConfigs ==
    {ConfigFile("custom",
        Rules(Frequency(TRUE, 1, 60), Amount(TRUE, 1000, 3000),
              Travel(TRUE, 600), Time(te, 2, 5))) : te \in BOOLEAN}

\* inputs around the edges of the frequency window
FrequencyInput ==
    {CsvFiles(BaseColumns,
        Unlabelled(Users,
                   {At(0, 10, 0, 0), At(0, 10, 30, 0), At(0, 10, 30, 1),
                    At(0, 11, 0, 0)},
                   {Dollars(50)}, {NY}))}

FrequencyConfigs ==
    {ConfigFile("custom",
        Rules(Frequency(TRUE, m, w), Amount(TRUE, 1000, 3000),
              Travel(TRUE, 600), Time(TRUE, 2, 5))) : m \in {1, 2}, w \in {30, 60}}

\* inputs around the single limit and around midnight
AmountInput ==
    {CsvFiles(BaseColumns,
        Unlabelled(Users, {At(0, 23, 59, 59)},
                   {Dollars(600), Dollars(1000), Dollars(1000) + 1}, {NY})
        \cup Unlabelled(Users, {At(1, 0, 0, 0)},
                   {Dollars(600), Dollars(1000) + 1}, {NY}))}

AmountConfigs ==
    {ConfigFile("custom",
        Rules(Frequency(TRUE, 5, 60), Amount(TRUE, 1000, d),
              Travel(TRUE, 600), Time(TRUE, 2, 5))) : d \in {1600, 3000}}

\* inputs with near and far places, at equal and different times
TravelInput ==
    {CsvFiles(BaseColumns,
        Unlabelled(Users, {At(0, 10, 0, 0)}, {Dollars(50)}, {NY, NWK, BOS})
        \cup Unlabelled(Users, {At(0, 10, 30, 0)}, {Dollars(50)}, {NY, BOS}))}

TravelConfigs ==
    {ConfigFile("custom",
        Rules(Frequency(TRUE, 5, 60), Amount(TRUE, 1000, 3000),
              Travel(TRUE, s), Time(TRUE, 2, 5))) : s \in {300, 600}}

\* inputs at the hours around the unusual-hours range
TimeInput ==
    {CsvFiles(BaseColumns,
        Unlabelled({"USER001"}, {At(0, h, 0, 0) : h \in 1..6},
                   {Dollars(50)}, {NY})
        \cup Unlabelled({"USER002"}, {At(0, h, 0, 0) : h \in {2, 6}},
                   {Dollars(50)}, {NY}))}

TimeConfigs ==
    {ConfigFile("custom",
        Rules(Frequency(TRUE, 5, 60), Amount(TRUE, 1000, 3000),
              Travel(TRUE, 600), Time(TRUE, r[1], r[2]))) :
        r \in {<<2, 5>>, <<1, 6>>, <<3, 4>>}}

\* the presets written by create_default_configs
StrictConfig ==
    ConfigFile("strict",
        Rules(Frequency(TRUE, 3, 30), Amount(TRUE, 500, 2000),
              Travel(TRUE, 400), Time(TRUE, 1, 6)))

ModerateConfig ==
    ConfigFile("moderate",
        Rules(Frequency(TRUE, 5, 60), Amount(TRUE, 1000, 3000),
              Travel(TRUE, 600), Time(TRUE, 2, 5)))

LenientConfig ==
    ConfigFile("lenient",
        Rules(Frequency(TRUE, 10, 120), Amount(TRUE, 2000, 5000),
              Travel(TRUE, 800), Time(TRUE, 3, 4)))

PresetConfigs == {StrictConfig, ModerateConfig, LenientConfig}

\* inputs for the presets: one user pays $50 in one place, from noon on, at
\* some of MaxBurst moments twelve minutes apart, written in time order
BurstLine(k) ==
    [user_id |-> "USER001",
     timestamp |-> At(0, 12 + (12 * (k - 1)) \div 60, (12 * (k - 1)) % 60, 0),
     amount |-> Dollars(50)] @@ NY

BurstBody(moments) ==
    [i \in 1..Cardinality(moments) |->
        BurstLine(CHOOSE k \in moments :
                     Cardinality({j \in moments : j < k}) = i - 1)]

\* inputs for a range of unusual hours written across midnight: transactions
\* late in the evening, in the night and at noon
OvernightInput ==
    {CsvFiles(BaseColumns,
        Unlabelled({"USER001"}, {At(0, h, 0, 0) : h \in {0, 2, 3, 12, 22, 23}},
                   {Dollars(50)}, {NY}))}

OvernightConfigs ==
    {ConfigFile("custom",
        Rules(Frequency(TRUE, 5, 60), Amount(TRUE, 1000, 3000),
              Travel(TRUE, 600), Time(TRUE, r[1], r[2]))) :
        r \in {<<22, 3>>, <<23, 0>>, <<2, 3>>}}

\* inputs in which the transactions of a user, and of two users, interact:
\* close in time, on one day, in distant places
InteractionInput ==
    {CsvFiles(BaseColumns,
        Unlabelled(Users, {At(0, 3, 0, 0), At(0, 3, 30, 0)},
                   {Dollars(600)}, {NY, BOS})
        \cup Unlabelled({"USER001"}, {At(0, 6, 0, 0)}, {Dollars(600)}, {NY}))}

InteractionConfigs ==
    {ConfigFile("custom",
        Rules(Frequency(TRUE, 1, 60), Amount(TRUE, 1000, d),
              Travel(TRUE, 300), Time(TRUE, 2, 5))) : d \in {1000, 3000}}

\* inputs on which every rule fires when enabled, under every choice of the
\* four enabled flags
DisabledInput ==
    {CsvFiles(BaseColumns,
        Unlabelled({"USER001"}, {At(0, 3, 0, 0)}, {Dollars(1500)}, {NY})
        \cup Unlabelled({"USER001"}, {At(0, 3, 30, 0)}, {Dollars(600)}, {NY, BOS})
        \cup Unlabelled({"USER002"}, {At(0, 3, 0, 0)}, {Dollars(50)}, {NY}))}

DisabledConfigs ==
    {ConfigFile("custom",
        Rules(Frequency(f, 1, 60), Amount(a, 1000, 1000),
              Travel(tr, 300), Time(ti, 2, 5))) :
        f \in BOOLEAN, a \in BOOLEAN, tr \in BOOLEAN, ti \in BOOLEAN}

\* inputs for the statistics: files with and without the is_fraud column,
\* labels present and missing, amounts the default rules flag and do not flag
StatisticsInput ==
    LET lines == Unlabelled({"USER001"}, {At(0, 10, 0, 0)},
                            {Dollars(50), Dollars(1500)}, {NY})
    IN  {CsvFiles(BaseColumns, lines),
         CsvFiles(BaseColumns \cup {"is_fraud"},
                  Labelled({"True", "False", ""}, lines))}

StatisticsConfigs == {ConfigFile("default", DefaultConfig)}

\* configuration files with a rule that lacks its enabled flag, or with a
\* threshold that is zero or negative
MisconfiguredInput ==
    {CsvFiles(BaseColumns,
        Unlabelled({"USER001"}, {At(0, 3, 0, 0), At(0, 10, 0, 0)},
                   {Dollars(50)}, {NY})
        \cup Unlabelled({"USER001"}, {At(0, 10, 0, 0)}, {Dollars(1500)}, {NY}))}

MisconfiguredConfigs ==
    {ConfigFile("custom", [DefaultConfig EXCEPT ![r] = WithoutEnabled(@)]) :
        r \in {"frequency", "time"}}
    \cup {ConfigFile("custom",
              [DefaultConfig EXCEPT !.frequency.max_transactions = 0]),
          ConfigFile("custom",
              [DefaultConfig EXCEPT !.amount.single_transaction_limit = -1]),
          ConfigFile("custom",
              [DefaultConfig EXCEPT !.travel.max_speed_mph = 0])}

\* files with well-formed lines, lines without an amount and lines whose
\* timestamp cannot be parsed
MalformedInput ==
    LET lines == Unlabelled({"USER001"}, {At(0, 10, 0, 0)},
                            {Dollars(50), Dollars(1500)}, {NY})
    IN  {CsvFiles(BaseColumns,
            lines \cup {BlankAmount(l) : l \in lines}
                  \cup {BadTimestamp(l) : l \in lines})}

\* every rule is enabled
MalformedConfigs == {ConfigFile("default", DefaultConfig)}

\* ---------------------------------------------------------- state machine
VARIABLES
    transactions_csv,   \* data/transactions.csv
    config_json,        \* config/<name>_config.json
    df,                 \* the caller's DataFrame returned by load_transactions
    current_config,     \* FraudDetectionSystem.current_config
    engine,             \* FraudDetectionSystem.engine
    results,            \* FraudDetectionSystem.results
    stats,              \* outcome of the last calculate_statistics call
    calls,              \* analyze_dataset calls made on the current engine
    raised,             \* exception that left the last analysis, else None
    current_session,    \* app.current_session
    upload_folder,      \* the files saved under uploads/
    response            \* the answer to the last request to the web application

\* the state of the web application
web == <<current_session, upload_folder, response>>

vars == <<transactions_csv, config_json, df, current_config, engine, results,
          stats, calls, raised, web>>

\* app.current_session when the module is imported
NewSession ==
    [data_loaded |-> FALSE, data_file |-> None, df |-> None,
     config_name |-> "moderate", results |-> None, stats |-> None]

\* no request was answered yet
NoResponse ==
    [route |-> "", status |-> 0, body |-> "", flash |-> <<>>,
     context |-> None]

InitApp ==
    /\ current_session = NewSession
    /\ upload_folder = <<>>
    /\ response = NoResponse

\* FraudDetectionSystem.__init__ with the files found on disk
InitWith(families, configs) ==
    /\ \E family \in families : \E n \in 0..MaxTxns :
           \E body \in [1..n -> family.lines] :
               transactions_csv = CsvFile(family.header, body)
    /\ config_json \in configs
    /\ df = None
    /\ current_config = None
    /\ engine = None
    /\ results = None
    /\ stats = None
    /\ calls = 0
    /\ raised = None
    /\ InitApp

Init == InitWith(GeneralInput, GeneralConfigs)

InitFrequency == InitWith(FrequencyInput, FrequencyConfigs)

InitAmount == InitWith(AmountInput, AmountConfigs)

InitTravel == InitWith(TravelInput, TravelConfigs)

InitTime == InitWith(TimeInput, TimeConfigs)

InitInteraction == InitWith(InteractionInput, InteractionConfigs)

InitDisabled == InitWith(DisabledInput, DisabledConfigs)

InitStatistics == InitWith(StatisticsInput, StatisticsConfigs)

InitMisconfigured == InitWith(MisconfiguredInput, MisconfiguredConfigs)

InitMalformed == InitWith(MalformedInput, MalformedConfigs)

InitOvernight == InitWith(OvernightInput, OvernightConfigs)

InitPresets ==
    /\ \E moments \in SUBSET (1..MaxBurst) :
           transactions_csv = CsvFile(BaseColumns, BurstBody(moments))
    /\ config_json \in PresetConfigs
    /\ df = None
    /\ current_config = None
    /\ engine = None
    /\ results = None
    /\ stats = None
    /\ calls = 0
    /\ raised = None
    /\ InitApp

LoadTransactions ==
    /\ df' = read_csv(transactions_csv)
    /\ UNCHANGED <<web, transactions_csv, config_json, current_config, engine,
                   results, stats, calls, raised>>

LoadConfiguration ==
    /\ current_config' = config_json
    /\ UNCHANGED <<web, transactions_csv, config_json, df, engine, results, stats,
                   calls, raised>>

\* mutant: the caller's DataFrame itself is analyzed, not a copy of it
RunDetection_in_place ==
    /\ df # None
    /\ current_config # None
    /\ \E r \in {analyze_dataset(FraudRuleEngine(current_config.rules), df)} :
        /\ engine' = r.self
        /\ results' = IF r.exception = None THEN r.df ELSE results
        /\ df' = r.df
        /\ raised' = r.exception
    /\ calls' = 1
    /\ UNCHANGED <<web, transactions_csv, config_json, current_config, stats>>

\* run_detection(df) with the loaded configuration: a new engine analyzes a
\* copy of the caller's DataFrame; self.results is assigned only when
\* analyze_dataset returns
RunDetection ==
    /\ df # None
    /\ current_config # None
    /\ \E r \in {analyze_dataset(FraudRuleEngine(current_config.rules), df)} :
        /\ engine' = r.self
        /\ results' = IF r.exception = None THEN r.df ELSE results
        /\ raised' = r.exception
    /\ calls' = 1
    /\ UNCHANGED <<web, transactions_csv, config_json, df, current_config, stats>>

\* engine.analyze_dataset(results): the same engine analyzes, in place, the
\* DataFrame it annotated before
AnalyzeAgain ==
    /\ engine # None
    /\ results # None
    /\ calls < MaxCalls
    /\ \E r \in {analyze_dataset(engine, results)} :
        /\ engine' = r.self
        /\ results' = r.df
        /\ raised' = r.exception
    /\ calls' = calls + 1
    /\ UNCHANGED <<web, transactions_csv, config_json, df, current_config, stats>>

CalculateStatistics ==
    /\ results # None
    /\ stats' = calculate_statistics(results)
    /\ UNCHANGED <<web, transactions_csv, config_json, df, current_config, engine,
                   results, calls, raised>>

Next ==
    \/ LoadTransactions
    \/ LoadConfiguration
    \/ RunDetection
    \/ AnalyzeAgain
    \/ CalculateStatistics

Spec == Init /\ [][Next]_vars

SpecFrequency == InitFrequency /\ [][Next]_vars

SpecAmount == InitAmount /\ [][Next]_vars

SpecTravel == InitTravel /\ [][Next]_vars

SpecTime == InitTime /\ [][Next]_vars

SpecInteraction == InitInteraction /\ [][Next]_vars

SpecDisabled == InitDisabled /\ [][Next]_vars

SpecStatistics == InitStatistics /\ [][Next]_vars

SpecMisconfigured == InitMisconfigured /\ [][Next]_vars

SpecMalformed == InitMalformed /\ [][Next]_vars

SpecOvernight == InitOvernight /\ [][Next]_vars

SpecPresets == InitPresets /\ [][Next]_vars

\* ------------------------------------------------------ web application
\* a file name is the sequence of its parts between dots: <<"txns", "csv">>
\* is txns.csv, <<"">> the empty name, <<"", "txns", "csv">> is .txns.csv
lower(part) ==
    CASE part = "CSV" -> "csv"
      [] part = "TXT" -> "txt"
      [] OTHER -> part

ALLOWED_EXTENSIONS == {"csv"}

\* '.' in filename and filename.rsplit('.', 1)[1].lower() in ALLOWED_EXTENSIONS
allowed_file(filename) ==
    /\ Len(filename) > 1
    /\ lower(filename[Len(filename)]) \in ALLOWED_EXTENSIONS

\* werkzeug's secure_filename on a name of letters and dots: the dots at
\* both ends are stripped
RECURSIVE secure_filename(_)
secure_filename(filename) ==
    IF filename = <<>> THEN filename
    ELSE IF Head(filename) = "" THEN secure_filename(Tail(filename))
    ELSE IF filename[Len(filename)] = ""
         THEN secure_filename(SubSeq(filename, 1, Len(filename) - 1))
    ELSE filename

\* the content of a file pd.read_csv cannot parse
Unreadable == [unreadable |-> TRUE]

\* the files a client uploads: transactions of one user at 10:00, a small
\* and a large amount, a timestamp that is no date, a labelled file without
\* transactions, a file without the location column, a file that is no CSV
UploadedFiles ==
    LET small == [user_id |-> "USER001", timestamp |-> At(0, 10, 0, 0),
                  amount |-> Dollars(50)] @@ NY
        large == [small EXCEPT !.amount = Dollars(1500)]
        WithoutLocation(line) == [k \in DOMAIN line \ {"location"} |-> line[k]]
    IN  {CsvFile(BaseColumns, <<small>>),
         CsvFile(BaseColumns, <<small, large>>),
         CsvFile(BaseColumns, <<BadTimestamp(small)>>),
         CsvFile(BaseColumns \cup {"is_fraud"}, <<>>),
         CsvFile(BaseColumns \ {"location"}, <<WithoutLocation(small)>>),
         Unreadable}

\* request.files['file']
FileStorage(filename, content) == [filename |-> filename, content |-> content]

\* the requests to /upload: a page view, a form without a file part, a file
\* part without a name, names with and without the csv extension
UploadRequests ==
    {[method |-> "GET", files |-> <<>>], [method |-> "POST", files |-> <<>>]}
    \cup {[method |-> "POST", files |-> [file |-> FileStorage(f, c)]] :
            f \in {<<"">>, <<"README">>, <<"notes", "txt">>},
            c \in {CsvFile(BaseColumns, <<>>)}}
    \cup {[method |-> "POST",
           files |-> [file |-> FileStorage(<<"txns", "csv">>, c)]] :
            c \in UploadedFiles}
    \cup {[method |-> "POST",
           files |-> [file |-> FileStorage(<<"", "TXNS", "CSV">>, c)]] :
            c \in {CsvFile(BaseColumns, <<>>)}}

\* the names a configure form may post: presets and a name without a file
ConfigNames == {"strict", "moderate", "custom"}

\* the configuration files found in config/
WebConfigs == {StrictConfig, ModerateConfig}

required_cols == {"transaction_id", "user_id", "timestamp", "amount", "location"}

redirect(route, url, category, message) ==
    [route |-> route, status |-> 302, body |-> url,
     flash |-> <<category, message>>, context |-> None]

render_template(route, page, context) ==
    [route |-> route, status |-> 200, body |-> page, flash |-> <<>>,
     context |-> context]

\* file.save(filepath)
save(folder, filename, content) ==
    [f \in DOMAIN folder \cup {filename} |->
        IF f = filename THEN content ELSE folder[f]]

\* mutant: a new file also discards the results of the file before it
upload_session_reset(session, filename, data) ==
    [session EXCEPT !.data_loaded = TRUE, !.data_file = filename, !.df = data,
                    !.results = None, !.stats = None]

\* the session after a file was accepted
upload_session(session, filename, data) ==
    [session EXCEPT !.data_loaded = TRUE, !.data_file = filename, !.df = data]

\* mutant: the results are stored before the statistics are calculated
detect_session_early(session, df_analyzed, statistics) ==
    IF "error" \in DOMAIN statistics
    THEN [session EXCEPT !.results = df_analyzed]
    ELSE [session EXCEPT !.results = df_analyzed, !.stats = statistics]

\* the session after detect: the results are stored once
\* calculate_statistics has returned
detect_session(session, df_analyzed, statistics) ==
    IF "error" \in DOMAIN statistics
    THEN session
    ELSE [session EXCEPT !.results = df_analyzed, !.stats = statistics]

InitWeb ==
    /\ transactions_csv = CsvFile(BaseColumns, <<>>)
    /\ config_json \in WebConfigs
    /\ df = None
    /\ current_config = None
    /\ engine = None
    /\ results = None
    /\ stats = None
    /\ calls = 0
    /\ raised = None
    /\ InitApp

\* GET and POST /upload
Upload ==
    /\ \E request \in UploadRequests :
        IF request.method = "GET"
        THEN /\ response' = render_template("upload", "upload.html", None)
             /\ UNCHANGED <<current_session, upload_folder>>
        ELSE IF "file" \notin DOMAIN request.files
        THEN /\ response' = redirect("upload", "upload", "error",
                                     "No file selected")
             /\ UNCHANGED <<current_session, upload_folder>>
        ELSE LET file == request.files.file
                 filename == secure_filename(file.filename)
             IN  IF file.filename = <<"">>
                 THEN /\ response' = redirect("upload", "upload", "error",
                                              "No file selected")
                      /\ UNCHANGED <<current_session, upload_folder>>
                 ELSE IF ~allowed_file(file.filename)
                 THEN /\ response' = redirect("upload", "upload", "error",
                                              "Invalid file type")
                      /\ UNCHANGED <<current_session, upload_folder>>
                 ELSE /\ upload_folder' =
                             save(upload_folder, filename, file.content)
                      /\ IF file.content = Unreadable
                         THEN /\ response' = redirect("upload", "upload",
                                        "error", "Error loading file")
                              /\ UNCHANGED current_session
                         ELSE IF required_cols \ read_csv(file.content).columns
                                     # {}
                         THEN /\ response' = redirect("upload", "upload",
                                        "error", "Missing required columns")
                              /\ UNCHANGED current_session
                         ELSE /\ current_session' =
                                     upload_session(current_session, filename,
                                                    read_csv(file.content))
                              /\ response' = redirect("upload", "configure",
                                        "success", "Successfully loaded")
    /\ UNCHANGED <<transactions_csv, config_json, df, current_config, engine,
                   results, stats, calls, raised>>

\* GET and POST /configure
Configure ==
    /\ \E method \in {"GET", "POST"} : \E config_name \in ConfigNames :
        IF ~current_session.data_loaded
        THEN /\ response' = redirect("configure", "upload", "warning",
                                     "Please upload transaction data first")
             /\ UNCHANGED current_session
        ELSE IF method = "POST"
        THEN /\ current_session' =
                    [current_session EXCEPT !.config_name = config_name]
             /\ response' = redirect("configure", "detect", "success",
                                     "Configuration set")
        ELSE /\ response' = render_template("configure", "configure.html",
                                            None)
             /\ UNCHANGED current_session
    /\ UNCHANGED <<transactions_csv, config_json, df, current_config, engine,
                   results, stats, calls, raised, upload_folder>>

\* GET and POST /detect: load_configuration, run_detection and
\* calculate_statistics of the detection system, inside one try block
Detect ==
    /\ \E method \in {"GET", "POST"} :
        IF ~current_session.data_loaded
        THEN /\ response' = redirect("detect", "upload", "warning",
                                     "Please upload transaction data first")
             /\ UNCHANGED <<current_session, current_config, engine, results,
                            stats, calls, raised>>
        ELSE IF method = "GET"
        THEN /\ response' = render_template("detect", "detect.html", None)
             /\ UNCHANGED <<current_session, current_config, engine, results,
                            stats, calls, raised>>
        ELSE IF current_session.config_name # config_json.name
        THEN \* load_config raises FileNotFoundError
             /\ response' = redirect("detect", "detect", "error",
                                     "Error during detection")
             /\ UNCHANGED <<current_session, current_config, engine, results,
                            stats, calls, raised>>
        ELSE LET r == analyze_dataset(FraudRuleEngine(config_json.rules),
                                      current_session.df)
             IN  /\ current_config' = config_json
                 /\ engine' = r.self
                 /\ calls' = 1
                 /\ raised' = r.exception
                 /\ IF r.exception # None
                    THEN /\ response' = redirect("detect", "detect", "error",
                                                 "Error during detection")
                         /\ UNCHANGED <<current_session, results, stats>>
                    ELSE /\ results' = r.df
                         /\ stats' = calculate_statistics(r.df)
                         /\ current_session' =
                                detect_session(current_session, r.df,
                                               calculate_statistics(r.df))
                         /\ response' =
                                IF "error" \in DOMAIN calculate_statistics(r.df)
                                THEN redirect("detect", "detect", "error",
                                              "Error during detection")
                                ELSE redirect("detect", "results", "success",
                                              "Fraud detection completed")
    /\ UNCHANGED <<transactions_csv, config_json, df, upload_folder>>

\* GET /results
Results ==
    /\ response' =
          IF current_session.results = None
          THEN redirect("results", "detect", "warning",
                        "No detection results available")
          ELSE render_template("results", "results.html",
                               current_session.stats)
    /\ UNCHANGED <<transactions_csv, config_json, df, current_config, engine,
                   results, stats, calls, raised, current_session,
                   upload_folder>>

\* GET /api/stats
ApiStats ==
    /\ response' =
          IF current_session.stats = None
          THEN [route |-> "api_stats", status |-> 404,
                body |-> "No statistics available", flash |-> <<>>,
                context |-> None]
          ELSE [route |-> "api_stats", status |-> 200, body |-> "json",
                flash |-> <<>>, context |-> current_session.stats]
    /\ UNCHANGED <<transactions_csv, config_json, df, current_config, engine,
                   results, stats, calls, raised, current_session,
                   upload_folder>>

NextWeb ==
    \/ Upload
    \/ Configure
    \/ Detect
    \/ Results
    \/ ApiStats

SpecWeb == InitWeb /\ [][NextWeb]_vars

\* ------------------------------------------------------------ properties
HasRule(row, rule) ==
    \E k \in 1..Len(row.violations) : row.violations[k].rule = rule

Analyzed == results # None

Positions == 1..Len(results.rows)

\* seconds from the start of day 0
Seconds(ts) == ts.day * 86400 + ts.hour * 3600 + ts.minute * 60 + ts.second

Flags(d) ==
    [i \in 1..Len(d.rows) |->
        <<d.rows[i].suspicious, d.rows[i].risk_score, d.rows[i].violations>>]

\* C1: after analyze_dataset every annotated transaction has risk_score equal
\* to the number of entries of its violations list, and suspicious equal to
\* (risk_score > 0)
C1_ScoreIsViolationCount ==
    Analyzed =>
        \A i \in Positions :
            /\ results.rows[i].risk_score = Len(results.rows[i].violations)
            /\ results.rows[i].suspicious = (results.rows[i].risk_score > 0)

C1_Witness ==
    /\ Analyzed
    /\ \E i \in Positions : results.rows[i].risk_score >= 2
    /\ \E i \in Positions : results.rows[i].risk_score = 0

\* C2: whenever calculate_statistics emits the ground-truth block, the four
\* confusion-matrix cells count every transaction exactly once, so
\* TP + FP + FN + TN = total_transactions
C2_ConfusionMatrixPartitions ==
    "ground_truth" \in DOMAIN stats =>
        stats.ground_truth.true_positives + stats.ground_truth.false_positives
        + stats.ground_truth.false_negatives + stats.ground_truth.true_negatives
            = stats.total_transactions

\* C3: analyze_dataset returns one annotated transaction per input
\* transaction, in the input's order and with the input's transaction ids
C3_OrderAndCardinalityPreserved ==
    Analyzed =>
        /\ Len(results.rows) = Len(df.rows)
        /\ \A i \in Positions :
               results.rows[i].transaction_id = df.rows[i].transaction_id

C3_Witness ==
    /\ Analyzed
    /\ Len(results.rows) >= 3
    /\ \E i \in Positions : results.rows[i].suspicious
    /\ \E i \in Positions : ~results.rows[i].suspicious

\* C4: analyzing the same input under the same configuration again (a new
\* run of run_detection, or the same engine analyzing its own annotated
\* output) leaves suspicious, risk_score and violations of every transaction
\* as they were
C4_Idempotent ==
    [][(results # None /\ results' # None) => Flags(results') = Flags(results)]_vars

C4_Witness ==
    /\ Analyzed
    /\ calls >= 2
    /\ Len(engine.violations) >= 2
    /\ \E i \in Positions : results.rows[i].suspicious

\* the transactions of the input that fall into the frequency window of
\* transaction i: same user, timestamp in [t - window, t]
FrequencyWindow(i) ==
    {j \in Positions :
        /\ df.rows[j].user_id = df.rows[i].user_id
        /\ Seconds(df.rows[j].timestamp) >=
               Seconds(df.rows[i].timestamp)
                   - 60 * engine.config.frequency.time_window_minutes
        /\ Seconds(df.rows[j].timestamp) <= Seconds(df.rows[i].timestamp)}

\* C5: with the frequency rule enabled, a transaction is flagged
\* HIGH_FREQUENCY exactly when more than max_transactions transactions of its
\* user lie in [t - time_window_minutes, t], both ends included and the
\* transaction itself counted
C5_FrequencyRule ==
    (Analyzed /\ engine.config.frequency.enabled) =>
        \A i \in Positions :
            HasRule(results.rows[i], "HIGH_FREQUENCY")
                <=> Cardinality(FrequencyWindow(i))
                        > engine.config.frequency.max_transactions

C5_Witness ==
    /\ Analyzed
    /\ engine.config.frequency.enabled
    /\ \E i \in Positions :
          /\ HasRule(results.rows[i], "HIGH_FREQUENCY")
          /\ Cardinality(FrequencyWindow(i))
                 = engine.config.frequency.max_transactions + 1
          /\ \E j \in FrequencyWindow(i) :
                 Seconds(df.rows[j].timestamp) =
                     Seconds(df.rows[i].timestamp)
                         - 60 * engine.config.frequency.time_window_minutes
    /\ \E i \in Positions :
          /\ ~HasRule(results.rows[i], "HIGH_FREQUENCY")
          /\ Cardinality(FrequencyWindow(i))
                 = engine.config.frequency.max_transactions

\* position of the nearest earlier transaction of the same user, 0 if none
Previous(i) ==
    LET earlier == {j \in 1..(i - 1) : df.rows[j].user_id = df.rows[i].user_id}
    IN  IF earlier = {} THEN 0
        ELSE CHOOSE j \in earlier : \A k \in earlier : k <= j

Distance(p, x) ==
    calculate_distance(df.rows[p].latitude, df.rows[p].longitude,
                       df.rows[x].latitude, df.rows[x].longitude)

Elapsed(p, x) == Seconds(df.rows[x].timestamp) - Seconds(df.rows[p].timestamp)

\* distance / max(0.01 h, elapsed) > max_speed_mph, with 0.01 h = 36 s
TooFast(p, x) ==
    LET e == IF Elapsed(p, x) > 36 THEN Elapsed(p, x) ELSE 36
    IN  Distance(p, x) * 36 > engine.config.travel.max_speed_mph * 10 * e

\* C6: with the travel rule enabled, a transaction is flagged
\* IMPOSSIBLE_TRAVEL exactly when its user has an earlier transaction and the
\* nearest one is more than 50 miles away and the speed needed, over at least
\* 0.01 hours, exceeds max_speed_mph; a user's first transaction and a pair at
\* most 50 miles apart are never flagged
C6_TravelRule ==
    (Analyzed /\ engine.config.travel.enabled) =>
        \A i \in Positions :
            /\ HasRule(results.rows[i], "IMPOSSIBLE_TRAVEL")
                   <=> /\ Previous(i) # 0
                       /\ Distance(Previous(i), i) > 50 * 1000
                       /\ TooFast(Previous(i), i)
            /\ Previous(i) = 0 => ~HasRule(results.rows[i], "IMPOSSIBLE_TRAVEL")
            /\ (Previous(i) # 0 /\ Distance(Previous(i), i) <= 50 * 1000)
                   => ~HasRule(results.rows[i], "IMPOSSIBLE_TRAVEL")

C6_Witness ==
    /\ Analyzed
    /\ engine.config.travel.enabled
    /\ \E i \in Positions : HasRule(results.rows[i], "IMPOSSIBLE_TRAVEL")
    /\ \E i \in Positions :
          /\ Previous(i) # 0
          /\ Distance(Previous(i), i) > 0
          /\ Distance(Previous(i), i) <= 50 * 1000
          /\ TooFast(Previous(i), i)
          /\ ~HasRule(results.rows[i], "IMPOSSIBLE_TRAVEL")

\* C7: with the amount rule enabled, a transaction is flagged
\* HIGH_AMOUNT_SINGLE exactly when its amount is greater than
\* single_transaction_limit; an amount equal to the limit is not flagged, one
\* cent more is
C7_SingleAmount ==
    (Analyzed /\ engine.config.amount.enabled) =>
        \A i \in Positions :
            HasRule(results.rows[i], "HIGH_AMOUNT_SINGLE")
                <=> df.rows[i].amount
                        > 100 * engine.config.amount.single_transaction_limit

C7_Witness ==
    /\ Analyzed
    /\ engine.config.amount.enabled
    /\ \E i \in Positions :
          /\ df.rows[i].amount
                 = 100 * engine.config.amount.single_transaction_limit
          /\ ~HasRule(results.rows[i], "HIGH_AMOUNT_SINGLE")
    /\ \E i \in Positions :
          /\ df.rows[i].amount
                 = 100 * engine.config.amount.single_transaction_limit + 1
          /\ HasRule(results.rows[i], "HIGH_AMOUNT_SINGLE")

RECURSIVE AmountOver(_)
AmountOver(S) ==
    IF S = {} THEN 0
    ELSE LET j == CHOOSE k \in S : TRUE
         IN  df.rows[j].amount + AmountOver(S \ {j})

\* what transaction i's user spent on i's calendar day, over the whole input
DailyTotal(i) ==
    AmountOver({j \in Positions :
                   /\ df.rows[j].user_id = df.rows[i].user_id
                   /\ df.rows[j].timestamp.day = df.rows[i].timestamp.day})

BothAmountChecksFire(i) ==
    /\ df.rows[i].amount > 100 * engine.config.amount.single_transaction_limit
    /\ DailyTotal(i) > 100 * engine.config.amount.daily_cumulative_limit

\* C8: the amount rule attaches at most one violation to a transaction; when
\* the single check and the daily check both fire, it is HIGH_AMOUNT_SINGLE
\* and not HIGH_AMOUNT_CUMULATIVE
C8_OneAmountViolation ==
    Analyzed =>
        \A i \in Positions :
            /\ Cardinality({k \in 1..Len(results.rows[i].violations) :
                   results.rows[i].violations[k].rule
                       \in {"HIGH_AMOUNT_SINGLE", "HIGH_AMOUNT_CUMULATIVE"}}) <= 1
            /\ (engine.config.amount.enabled /\ BothAmountChecksFire(i))
                   => /\ HasRule(results.rows[i], "HIGH_AMOUNT_SINGLE")
                      /\ ~HasRule(results.rows[i], "HIGH_AMOUNT_CUMULATIVE")

C8_Witness ==
    /\ Analyzed
    /\ engine.config.amount.enabled
    /\ \E i \in Positions :
          /\ BothAmountChecksFire(i)
          /\ HasRule(results.rows[i], "HIGH_AMOUNT_SINGLE")
          /\ results.rows[i].risk_score = 1

\* C9: with the amount rule enabled, a transaction whose amount is within the
\* single limit is flagged HIGH_AMOUNT_CUMULATIVE exactly when the amounts of
\* all of its user's transactions on its calendar day sum to more than
\* daily_cumulative_limit
C9_DailyCumulative ==
    (Analyzed /\ engine.config.amount.enabled) =>
        \A i \in Positions :
            df.rows[i].amount
                    <= 100 * engine.config.amount.single_transaction_limit
                => (HasRule(results.rows[i], "HIGH_AMOUNT_CUMULATIVE")
                       <=> DailyTotal(i)
                               > 100 * engine.config.amount.daily_cumulative_limit)

C9_Witness ==
    /\ Analyzed
    /\ engine.config.amount.enabled
    /\ \E i \in Positions :
          /\ df.rows[i].amount
                 <= 100 * engine.config.amount.single_transaction_limit
          /\ HasRule(results.rows[i], "HIGH_AMOUNT_CUMULATIVE")
          /\ \E j \in Positions :
                 /\ j > i
                 /\ df.rows[j].user_id = df.rows[i].user_id
                 /\ df.rows[j].timestamp.day = df.rows[i].timestamp.day
          /\ \E j \in Positions :
                 /\ df.rows[j].user_id = df.rows[i].user_id
                 /\ df.rows[j].timestamp.day # df.rows[i].timestamp.day
                 /\ ~HasRule(results.rows[j], "HIGH_AMOUNT_CUMULATIVE")

\* C10: with the time rule enabled, a transaction is flagged UNUSUAL_TIME
\* exactly when the hour of its timestamp lies in
\* [unusual_hours_start, unusual_hours_end], both ends included; with the
\* range 2..5 the hours 2, 3, 4 and 5 are flagged and the hours 1 and 6 are not
C10_TimeRule ==
    (Analyzed /\ engine.config.time.enabled) =>
        \A i \in Positions :
            /\ HasRule(results.rows[i], "UNUSUAL_TIME")
                   <=> /\ engine.config.time.unusual_hours_start
                              <= df.rows[i].timestamp.hour
                       /\ df.rows[i].timestamp.hour
                              <= engine.config.time.unusual_hours_end
            /\ (/\ engine.config.time.unusual_hours_start = 2
                /\ engine.config.time.unusual_hours_end = 5)
                   => (HasRule(results.rows[i], "UNUSUAL_TIME")
                          <=> df.rows[i].timestamp.hour \in {2, 3, 4, 5})

C10_Witness ==
    /\ Analyzed
    /\ engine.config.time.enabled
    /\ engine.config.time.unusual_hours_start = 2
    /\ engine.config.time.unusual_hours_end = 5
    /\ \E i \in Positions :
          /\ df.rows[i].timestamp.hour = 2
          /\ HasRule(results.rows[i], "UNUSUAL_TIME")
    /\ \E i \in Positions :
          /\ df.rows[i].timestamp.hour = 5
          /\ HasRule(results.rows[i], "UNUSUAL_TIME")
    /\ \E i \in Positions :
          /\ df.rows[i].timestamp.hour = 6
          /\ ~HasRule(results.rows[i], "UNUSUAL_TIME")

\* the input is in time order
TimeOrdered ==
    \A i, j \in 1..Len(df.rows) :
        i < j => Seconds(df.rows[i].timestamp) <= Seconds(df.rows[j].timestamp)

\* the transactions after the first k all have later timestamps than the
\* first k: the input is its first k transactions with later ones appended
AppendedLater(k) ==
    \A i \in 1..k : \A j \in (k + 1)..Len(df.rows) :
        Seconds(df.rows[i].timestamp) < Seconds(df.rows[j].timestamp)

Prefix(d, k) == [d EXCEPT !.rows = SubSeq(@, 1, k)]

\* C11: appending transactions with later timestamps to a time-ordered input
\* changes the violations, risk_score and suspicious flag of no earlier
\* transaction: the first k transactions get from the analysis of the whole
\* input what they get from the analysis of the first k alone
C11_NoLookAhead ==
    (Analyzed /\ TimeOrdered) =>
        \A k \in 0..Len(df.rows) :
            AppendedLater(k) =>
                \A i \in 1..k :
                    Flags(analyze_dataset(FraudRuleEngine(engine.config),
                                          Prefix(df, k)).df)[i]
                        = Flags(results)[i]

\* the file that holds only the lines of one user, in the file's order
OwnLines(file, user_id) ==
    [file EXCEPT !.lines = SelectSeq(@, LAMBDA l : l.user_id = user_id)]

OwnRows(d, user_id) ==
    [d EXCEPT !.rows = SelectSeq(@, LAMBDA r : r.user_id = user_id)]

\* C12: every transaction gets from the analysis of the whole input the
\* violations it gets from the analysis of its own user's transactions alone
C12_UserPartition ==
    Analyzed =>
        \A u \in Users :
            Flags(analyze_dataset(FraudRuleEngine(engine.config),
                                  read_csv(OwnLines(transactions_csv, u))).df)
                = Flags(OwnRows(results, u))

\* a user's transaction flagged for travel and frequency against that user's
\* previous transaction, with a transaction of the other user, made in
\* another place, between the two
C12_Witness ==
    /\ Analyzed
    /\ Len(results.rows) = 3
    /\ results.rows[1].user_id = results.rows[3].user_id
    /\ results.rows[2].user_id # results.rows[3].user_id
    /\ results.rows[2].location = results.rows[3].location
    /\ HasRule(results.rows[3], "IMPOSSIBLE_TRAVEL")
    /\ HasRule(results.rows[3], "HIGH_FREQUENCY")
    /\ ~HasRule(results.rows[2], "HIGH_FREQUENCY")

\* the rule ids of the rules whose enabled flag is false
DisabledRuleIds(config) ==
    (IF config.frequency.enabled THEN {} ELSE {"HIGH_FREQUENCY"})
    \cup (IF config.amount.enabled THEN {}
          ELSE {"HIGH_AMOUNT_SINGLE", "HIGH_AMOUNT_CUMULATIVE"})
    \cup (IF config.travel.enabled THEN {} ELSE {"IMPOSSIBLE_TRAVEL"})
    \cup (IF config.time.enabled THEN {} ELSE {"UNUSUAL_TIME"})

AllDisabled(config) ==
    /\ ~config.frequency.enabled
    /\ ~config.amount.enabled
    /\ ~config.travel.enabled
    /\ ~config.time.enabled

\* C13: no transaction carries a violation whose rule id belongs to a rule
\* whose enabled flag is false, and with all four rules disabled no
\* transaction is suspicious
C13_DisabledRuleSilent ==
    Analyzed =>
        \A i \in Positions :
            /\ \A k \in 1..Len(results.rows[i].violations) :
                   results.rows[i].violations[k].rule
                       \notin DisabledRuleIds(engine.config)
            /\ AllDisabled(engine.config) => ~results.rows[i].suspicious

\* the time rule is disabled and the others are not: a transaction made at
\* 03:30 is flagged by the frequency rule and not by the time rule
C13_Witness ==
    /\ Analyzed
    /\ DisabledRuleIds(engine.config) = {"UNUSUAL_TIME"}
    /\ \E i \in Positions :
          /\ df.rows[i].timestamp.hour = 3
          /\ HasRule(results.rows[i], "HIGH_FREQUENCY")
          /\ ~HasRule(results.rows[i], "UNUSUAL_TIME")

\* calculate_statistics returned a statistics dictionary
IsMetrics == stats # None /\ "total_transactions" \in DOMAIN stats

HasBlock == "ground_truth" \in DOMAIN stats

\* the transaction carries a ground-truth label
HasLabel(row) ==
    "is_fraud" \in DOMAIN row /\ row.is_fraud \in {"True", "False"}

\* C14: on a non-empty input, calculate_statistics emits the ground-truth
\* block exactly when every transaction carries a ground-truth label; the
\* block is absent as soon as one transaction lacks it
C14_BlockIffAllLabelled ==
    (IsMetrics /\ Len(results.rows) > 0) =>
        (HasBlock <=> \A i \in Positions : HasLabel(results.rows[i]))

\* C15: when the input has ground truth, calculate_statistics returns the
\* statistics with the ground-truth block and never raises, and each of
\* precision, recall, f1_score and accuracy is 0 when its denominator is 0
C15_MetricsTotal ==
    (stats # None /\ "is_fraud" \in results.columns) =>
        /\ IsMetrics
        /\ HasBlock
        /\ (stats.ground_truth.true_positives
                + stats.ground_truth.false_positives = 0)
               => stats.ground_truth.precision = 0
        /\ (stats.ground_truth.true_positives
                + stats.ground_truth.false_negatives = 0)
               => stats.ground_truth.recall = 0
        /\ (stats.ground_truth.precision + stats.ground_truth.recall = 0)
               => stats.ground_truth.f1_score = 0
        /\ stats.total_transactions = 0 => stats.ground_truth.accuracy = 0

NothingFlagged ==
    /\ stats # None
    /\ "is_fraud" \in results.columns
    /\ Len(results.rows) > 0
    /\ \A i \in Positions : ~results.rows[i].suspicious

\* C16: for a non-empty input with ground truth and no flagged transaction,
\* calculate_statistics returns precision 0, recall 0 and f1_score 0 without
\* raising, whatever the number of actual fraud transactions
C16_NothingFlagged ==
    NothingFlagged =>
        /\ IsMetrics
        /\ HasBlock
        /\ stats.ground_truth.precision = 0
        /\ stats.ground_truth.recall = 0
        /\ stats.ground_truth.f1_score = 0

C16_Witness ==
    /\ NothingFlagged
    /\ HasBlock
    /\ stats.ground_truth.actual_fraud_count > 0
    /\ stats.ground_truth.false_negatives > 0
    /\ stats.ground_truth.true_negatives > 0

\* C20: in every statistics dictionary flagged_count + clean_count equals
\* total_transactions, flagged_count is the number of annotated transactions
\* whose suspicious flag is true, and neither count is negative
C20_CountsAddUp ==
    IsMetrics =>
        /\ stats.flagged_count + stats.clean_count = stats.total_transactions
        /\ stats.flagged_count =
               Cardinality({i \in Positions : results.rows[i].suspicious})
        /\ stats.total_transactions = Len(results.rows)
        /\ stats.flagged_count >= 0
        /\ stats.clean_count >= 0

C20_Witness ==
    /\ IsMetrics
    /\ stats.total_transactions = 3
    /\ stats.flagged_count >= 1
    /\ stats.clean_count >= 1

\* a rule lacks its enabled flag, or a threshold is zero or negative
Misconfigured(config) ==
    \/ \E r \in DOMAIN config : "enabled" \notin DOMAIN config[r]
    \/ config.frequency.max_transactions <= 0
    \/ config.frequency.time_window_minutes <= 0
    \/ config.amount.single_transaction_limit <= 0
    \/ config.amount.daily_cumulative_limit <= 0
    \/ config.travel.max_speed_mph <= 0

\* C17: run_detection of a non-empty input with a misconfigured rule set
\* fails with an error before a transaction is evaluated, and never returns
\* annotated transactions
C17_MisconfigurationFailsFast ==
    (engine # None /\ Misconfigured(engine.config) /\ Len(df.rows) > 0) =>
        /\ raised # None
        /\ results = None
        /\ engine.violations = <<>>

\* the record has no amount, or a timestamp that is not a date
Malformed(row) ==
    isna(row, "amount") \/ to_datetime_raises(row.timestamp)

\* C18: run_detection of an input that holds a malformed record fails: it
\* raises, and returns no annotated output
C18_MalformedRecordFails ==
    (engine # None /\ \E i \in 1..Len(df.rows) : Malformed(df.rows[i])) =>
        /\ raised # None
        /\ results = None

\* the place of a rule id in the order frequency, amount, travel, time
EvaluatorRank(rule) ==
    CASE rule = "HIGH_FREQUENCY" -> 1
      [] rule \in {"HIGH_AMOUNT_SINGLE", "HIGH_AMOUNT_CUMULATIVE"} -> 2
      [] rule = "IMPOSSIBLE_TRAVEL" -> 3
      [] rule = "UNUSUAL_TIME" -> 4

\* C19: the violations list of every annotated transaction is in the order
\* frequency, amount, travel, time: each entry belongs to a later evaluator
\* than the entry before it
C19_ViolationOrder ==
    Analyzed =>
        \A i \in Positions :
            \A k \in 1..(Len(results.rows[i].violations) - 1) :
                EvaluatorRank(results.rows[i].violations[k].rule)
                    < EvaluatorRank(results.rows[i].violations[k + 1].rule)

C19_Witness ==
    /\ Analyzed
    /\ \E i \in Positions :
          /\ Len(results.rows[i].violations) = 4
          /\ results.rows[i].violations[1].rule = "HIGH_FREQUENCY"
          /\ results.rows[i].violations[4].rule = "UNUSUAL_TIME"
    /\ \E i \in Positions :
          /\ Len(results.rows[i].violations) = 2
          /\ results.rows[i].violations[1].rule = "HIGH_AMOUNT_CUMULATIVE"

RuleIds == {"HIGH_FREQUENCY", "HIGH_AMOUNT_SINGLE", "HIGH_AMOUNT_CUMULATIVE",
            "IMPOSSIBLE_TRAVEL", "UNUSUAL_TIME"}

\* the sum of the values of a function with a finite domain
RECURSIVE SumOf(_)
SumOf(f) ==
    IF DOMAIN f = {} THEN 0
    ELSE LET x == CHOOSE y \in DOMAIN f : TRUE
         IN  f[x] + SumOf([y \in DOMAIN f \ {x} |-> f[y]])

\* the tally of a rule id, 0 when the dictionary has no entry for it
Tally(rule) ==
    IF rule \in DOMAIN stats.violations_by_rule
    THEN stats.violations_by_rule[rule] ELSE 0

\* the violations with the rule id, over all annotated transactions
Instances(rule) ==
    {p \in Positions \X (1..4) :
        /\ p[2] <= Len(results.rows[p[1]].violations)
        /\ results.rows[p[1]].violations[p[2]].rule = rule}

\* C21: the tally of each rule id is the number of violations with that rule
\* id over all transactions, so the tallies sum to the sum of risk_score
C21_TallyCountsInstances ==
    IsMetrics =>
        /\ DOMAIN stats.violations_by_rule \subseteq RuleIds
        /\ \A rule \in RuleIds : Tally(rule) = Cardinality(Instances(rule))
        /\ SumOf(stats.violations_by_rule)
               = SumOf([i \in Positions |-> results.rows[i].risk_score])

C21_Witness ==
    /\ IsMetrics
    /\ Tally("UNUSUAL_TIME") >= 2
    /\ Tally("HIGH_FREQUENCY") = 1
    /\ \E i \in Positions : results.rows[i].risk_score >= 3
    /\ \E i \in Positions : results.rows[i].risk_score = 1

\* C22: the risk-score histogram has no entry for score 0, each entry
\* score -> n says that n flagged transactions have that risk_score, and the
\* entries sum to flagged_count
C22_HistogramOfFlagged ==
    IsMetrics =>
        /\ 0 \notin DOMAIN stats.risk_score_distribution
        /\ \A s \in DOMAIN stats.risk_score_distribution :
               stats.risk_score_distribution[s]
                   = Cardinality({i \in Positions :
                                     /\ results.rows[i].suspicious
                                     /\ results.rows[i].risk_score = s})
        /\ SumOf(stats.risk_score_distribution) = stats.flagged_count

C22_Witness ==
    /\ IsMetrics
    /\ Cardinality(DOMAIN stats.risk_score_distribution) >= 2
    /\ stats.clean_count >= 1

\* the record without the fields the analysis adds
InputFields(row) == [c \in DOMAIN row \ ResultColumns |-> row[c]]

\* C23: the analysis changes no input field of a transaction: an output
\* record is the input record plus suspicious, risk_score and violations,
\* and the caller's DataFrame stays as read from the file, without those
\* three fields
C23_InputFieldsUntouched ==
    Analyzed =>
        /\ df = read_csv(transactions_csv)
        /\ df.columns \cap ResultColumns = {}
        /\ results.columns = df.columns \cup ResultColumns
        /\ Len(results.rows) = Len(df.rows)
        /\ \A i \in Positions :
               /\ DOMAIN df.rows[i] \cap ResultColumns = {}
               /\ DOMAIN results.rows[i] = DOMAIN df.rows[i] \cup ResultColumns
               /\ InputFields(results.rows[i]) = df.rows[i]

C23_Witness ==
    /\ Analyzed
    /\ calls >= 2
    /\ "is_fraud" \in df.columns
    /\ \E i \in Positions :
          results.rows[i].suspicious /\ results.rows[i].is_fraud = "False"
    /\ \E i \in Positions :
          ~results.rows[i].suspicious /\ results.rows[i].is_fraud = "NaN"

\* the severity fixed for each rule id
SeverityOf ==
    [rule \in RuleIds |->
        CASE rule \in {"HIGH_FREQUENCY", "HIGH_AMOUNT_SINGLE"} -> "HIGH"
          [] rule \in {"HIGH_AMOUNT_CUMULATIVE", "UNUSUAL_TIME"} -> "MEDIUM"
          [] rule = "IMPOSSIBLE_TRAVEL" -> "CRITICAL"]

\* C24: every violation has one of the five rule ids and the severity fixed
\* for it: HIGH for HIGH_FREQUENCY and HIGH_AMOUNT_SINGLE, MEDIUM for
\* HIGH_AMOUNT_CUMULATIVE and UNUSUAL_TIME, CRITICAL for IMPOSSIBLE_TRAVEL
C24_FixedSeverity ==
    Analyzed =>
        \A i \in Positions :
            \A k \in 1..Len(results.rows[i].violations) :
                /\ results.rows[i].violations[k].rule \in RuleIds
                /\ results.rows[i].violations[k].severity
                       = SeverityOf[results.rows[i].violations[k].rule]

\* an input on which all five rule ids occur
C24_Witness ==
    /\ Analyzed
    /\ \A rule \in RuleIds :
           \E i \in Positions : HasRule(results.rows[i], rule)

\* the number of rules whose enabled flag is true
EnabledRules(config) ==
    Cardinality({r \in DOMAIN config : config[r].enabled})

\* C29: for every annotated transaction 0 <= risk_score <= number of enabled
\* rules <= 4, no rule id occurs twice in its violations, and
\* HIGH_AMOUNT_SINGLE and HIGH_AMOUNT_CUMULATIVE never occur together
C29_ScoreBounded ==
    Analyzed =>
        \A i \in Positions :
            /\ 0 <= results.rows[i].risk_score
            /\ results.rows[i].risk_score <= EnabledRules(engine.config)
            /\ EnabledRules(engine.config) <= 4
            /\ \A k, l \in 1..Len(results.rows[i].violations) :
                   k # l => results.rows[i].violations[k].rule
                                # results.rows[i].violations[l].rule
            /\ ~(/\ HasRule(results.rows[i], "HIGH_AMOUNT_SINGLE")
                 /\ HasRule(results.rows[i], "HIGH_AMOUNT_CUMULATIVE"))

\* a transaction that reaches the bound with two rules enabled, one of them
\* the amount rule with both of its checks firing
C29_Witness ==
    /\ Analyzed
    /\ EnabledRules(engine.config) = 2
    /\ engine.config.amount.enabled
    /\ \E i \in Positions :
          /\ results.rows[i].risk_score = 2
          /\ df.rows[i].amount > Dollars(engine.config.amount.single_transaction_limit)
          /\ SumAmount(df.rows) > Dollars(engine.config.amount.daily_cumulative_limit)

\* the positions of the flagged transactions, in input order
FlaggedPositions ==
    SelectSeq([i \in Positions |-> i], LAMBDA i : results.rows[i].suspicious)

\* C26: the engine's violation log holds, call after call and in input order
\* within a call, one entry for every transaction flagged in the call: after
\* calls analyze_dataset calls on one engine its length is the sum of the
\* flagged counts of the calls, and after run_detection, which builds a new
\* engine, it is the flagged count of that run
C26_LogAccumulates ==
    Analyzed =>
        LET n == Len(FlaggedPositions) IN
        /\ Len(engine.violations) = calls * n
        /\ \A c \in 0..(calls - 1) : \A k \in 1..n :
               LET entry == engine.violations[c * n + k]
                   row == results.rows[FlaggedPositions[k]]
               IN  /\ entry.transaction_idx = FlaggedPositions[k] - 1
                   /\ entry.transaction_id = row.transaction_id
                   /\ entry.user_id = row.user_id
                   /\ entry.violations = row.violations

C26_Witness ==
    /\ Analyzed
    /\ calls >= 2
    /\ Len(results.rows) = 3
    /\ results.rows[1].suspicious
    /\ ~results.rows[2].suspicious
    /\ results.rows[3].suspicious
    /\ Len(engine.violations) = 2 * calls

\* C30: when the time rule is enabled with unusual_hours_start greater than
\* unusual_hours_end, no transaction, at whatever hour, gets UNUSUAL_TIME
C30_OvernightRangeIsEmpty ==
    (/\ Analyzed
     /\ engine.config.time.enabled
     /\ engine.config.time.unusual_hours_start
            > engine.config.time.unusual_hours_end) =>
        \A i \in Positions : ~HasRule(results.rows[i], "UNUSUAL_TIME")

C30_Witness ==
    /\ Analyzed
    /\ engine.config.time.enabled
    /\ engine.config.time.unusual_hours_start = 22
    /\ engine.config.time.unusual_hours_end = 3
    /\ \E i, j \in Positions :
           /\ results.rows[i].timestamp.hour = 23
           /\ results.rows[j].timestamp.hour = 2
           /\ ~results.rows[i].suspicious
           /\ ~results.rows[j].suspicious

\* the suspicious flags of the transactions of df under a preset
FlaggedUnder(preset) ==
    LET r == analyze_dataset(FraudRuleEngine(preset.rules), df).df
    IN  [i \in 1..Len(r.rows) |-> r.rows[i].suspicious]

\* C25: every transaction flagged under the moderate preset is flagged under
\* the strict preset, and every transaction flagged under the lenient preset
\* is flagged under the moderate preset
C25_PresetsMonotone ==
    (Analyzed /\ calls = 1) =>
        /\ current_config = ModerateConfig =>
               \A i \in Positions :
                   results.rows[i].suspicious => FlaggedUnder(StrictConfig)[i]
        /\ current_config = LenientConfig =>
               \A i \in Positions :
                   results.rows[i].suspicious => FlaggedUnder(ModerateConfig)[i]

\* the session's results and statistics
Served(session) == <<session.results, session.stats>>

DetectFailed(resp) ==
    resp.route = "detect" /\ resp.flash # <<>> /\ resp.flash[1] = "error"

DetectSucceeded(resp) ==
    resp.route = "detect" /\ resp.body = "results"

\* C27: in the web application the session's results are set only if
\* data_loaded is true, data_loaded never returns to false, detection is run
\* only after a successful upload, the results page is rendered only after a
\* detect request has succeeded, and a detect request that raises leaves the
\* session's results and stats as they were
C27_SessionOrder ==
    /\ [](current_session.results # None => current_session.data_loaded)
    /\ [](engine # None => current_session.data_loaded)
    /\ []((response.route = "results" /\ response.status = 200) =>
             current_session.results # None)
    /\ [][/\ current_session.data_loaded => current_session'.data_loaded
          /\ Served(current_session') # Served(current_session) =>
                DetectSucceeded(response')
          /\ DetectSucceeded(response') => current_session.data_loaded
          /\ DetectFailed(response') =>
                Served(current_session') = Served(current_session)]_vars

C27_Witness ==
    /\ DetectFailed(response)
    /\ current_session.results # None
    /\ results # current_session.results
    /\ "error" \in DOMAIN stats

UploadRejected(resp) ==
    resp.route = "upload" /\ resp.status = 302 /\ resp.body = "upload"

\* C28: an upload request changes at most data_loaded, data_file and df of
\* the session: a rejected upload changes nothing of it, and a successful
\* one leaves results, stats and config_name as they were
C28_UploadFrame ==
    [][response'.route = "upload" =>
        /\ \A key \in {"results", "stats", "config_name"} :
               current_session'[key] = current_session[key]
        /\ UploadRejected(response') => current_session' = current_session
      ]_vars

C28_Witness ==
    /\ response.route = "upload"
    /\ response.body = "configure"
    /\ current_session.results # None
    /\ current_session.config_name = "strict"
    /\ Len(current_session.df.rows) # Len(current_session.results.rows)

====
